---- MODULE Spec2Model ----
(***************************************************************************)
(* Model of parse_query (src/column.py): the extraction of the             *)
(* alias -> {table_name, columns} map from a parsed SQL syntax tree.       *)
(*                                                                         *)
(* The syntax tree comes from sqlglot.parse_one and is read only through   *)
(* find_all(NodeType), which yields the nodes of one type in traversal     *)
(* order.  The tree is therefore represented by what find_all returns for  *)
(* each of the four node types the function asks for; the relative order   *)
(* of nodes of different types is never observed by the code.              *)
(*                                                                         *)
(* Strings are TLA+ strings.  "" is the empty (falsy) string that sqlglot  *)
(* returns for an absent alias, an absent column qualifier, or the name of *)
(* a table reference that is a function call.  Identifiers are drawn from  *)
(* NameSeq, which lists them in ascending lexicographic order.             *)
(***************************************************************************)
EXTENDS Naturals, Sequences, FiniteSets

VARIABLES tree, info, pc, fallback

vars == <<tree, info, pc, fallback>>

-----------------------------------------------------------------------------
(* Bounds of the model *)

\* Largest number of CTE, Table, aliased-or-not Subquery and Column nodes in a tree.
MaxNodes == 3

\* Number of distinct identifiers that can occur in a tree.
NumNames == 2

-----------------------------------------------------------------------------
(* Strings *)

NameSeq == <<"a", "b", "c", "d", "e", "f">>

Names == {NameSeq[i] : i \in 1..NumNames}

OptNames == Names \cup {""}

\* Position of an identifier in lexicographic order.
Rank(s) == CHOOSE i \in 1..Len(NameSeq) : NameSeq[i] = s

\* s < t on Python strings
StrLess(s, t) == Rank(s) < Rank(t)

-----------------------------------------------------------------------------
(* Syntax-tree nodes, reduced to the properties parse_query reads *)

CTENodes == [alias : Names]

TableNodes == [name : OptNames, alias : OptNames]

SubqueryNodes == [alias : OptNames]

\* sqlglot's Column has no alias argument, so Column.alias is always "".
ColumnNodes == [table : OptNames, name : Names, alias : {""}]

SeqOfLen(S, n) == [1..n -> S]

TreesOfShape(a, b, c, d) ==
    [ctes : SeqOfLen(CTENodes, a), tables : SeqOfLen(TableNodes, b),
     subqueries : SeqOfLen(SubqueryNodes, c), columns : SeqOfLen(ColumnNodes, d)]

Shapes == {s \in [1..4 -> 0..MaxNodes] : s[1] + s[2] + s[3] + s[4] <= MaxNodes}

Trees == UNION {TreesOfShape(s[1], s[2], s[3], s[4]) : s \in Shapes}

\* Expression.alias_or_name: self.alias or self.name
AliasOrName(node) == IF node.alias # "" THEN node.alias ELSE node.name

-----------------------------------------------------------------------------
(* The insertion-ordered dict `info`: a sequence of entries, one per key *)

Range(s) == {s[i] : i \in 1..Len(s)}

Keys(d) == {d[i].key : i \in 1..Len(d)}

IndexOf(d, k) == CHOOSE i \in 1..Len(d) : d[i].key = k

\* Variant: assigning to a present key moves it to the end (del + insert).
DictSetMoveToEnd(d, k, tn) ==
    LET e == [key |-> k, table_name |-> tn, columns |-> <<>>]
    IN  Append(SelectSeq(d, LAMBDA x : x.key # k), e)

\* Variant: a present key keeps its old value (info.setdefault).
DictSetKeepFirst(d, k, tn) ==
    LET e == [key |-> k, table_name |-> tn, columns |-> <<>>]
    IN  IF k \in Keys(d) THEN d ELSE Append(d, e)

\* info[k] = {"table_name": tn, "columns": []}
\* A present key keeps its position and gets the new value; a new key goes last.
DictSet(d, k, tn) ==
    LET e == [key |-> k, table_name |-> tn, columns |-> <<>>]
    IN  IF k \in Keys(d) THEN [d EXCEPT ![IndexOf(d, k)] = e] ELSE Append(d, e)

\* info[k]["columns"].append(c)
AppendColumn(d, k, c) ==
    [d EXCEPT ![IndexOf(d, k)].columns = Append(@, c)]

-----------------------------------------------------------------------------
(* The passes of parse_query *)

\* 1. for cte_expr in parsed.find_all(CTE)
RECURSIVE CollectCTEs(_, _, _)
CollectCTEs(d, nodes, i) ==
    IF i > Len(nodes) THEN d
    ELSE CollectCTEs(DictSet(d, nodes[i].alias, "CTE"), nodes, i + 1)

\* Variant: alias = table_expr.name
TableAliasNameOnly(t) == t.name

\* alias = table_expr.alias or table_expr.name
TableAlias(t) == IF t.alias # "" THEN t.alias ELSE t.name

\* 2. for table_expr in parsed.find_all(Table)
RECURSIVE CollectTables(_, _, _)
CollectTables(d, nodes, i) ==
    IF i > Len(nodes) THEN d
    ELSE CollectTables(DictSet(d, TableAlias(nodes[i]), nodes[i].name), nodes, i + 1)

\* 3. for subq_expr in parsed.find_all(Subquery)
RECURSIVE CollectSubqueries(_, _, _)
CollectSubqueries(d, nodes, i) ==
    IF i > Len(nodes) THEN d
    ELSE IF nodes[i].alias # ""
         THEN CollectSubqueries(DictSet(d, nodes[i].alias, "Subquery"), nodes, i + 1)
         ELSE CollectSubqueries(d, nodes, i + 1)

\* Variant: the entry is created anew for every qualified column
AttributeColumnAlwaysCreate(d, col) ==
    IF col.table # ""
    THEN AppendColumn(DictSet(d, col.table, col.table), col.table, col.name)
    ELSE d

\* Variant: without the test `if col_expr.table`
AttributeColumnNoCheck(d, col) ==
    LET alias == col.table
        d1 == IF alias \notin Keys(d) THEN DictSet(d, alias, alias) ELSE d
    IN  AppendColumn(d1, alias, col.name)

\* 4. body of the loop for one column
AttributeColumn(d, col) ==
    IF col.table # ""
    THEN LET alias == col.table
             d1 == IF alias \notin Keys(d) THEN DictSet(d, alias, alias) ELSE d
         IN  AppendColumn(d1, alias, col.name)
    ELSE d

\* 4. for col_expr in parsed.find_all(Column)
RECURSIVE CollectColumns(_, _, _)
CollectColumns(d, nodes, i) ==
    IF i > Len(nodes) THEN d
    ELSE CollectColumns(AttributeColumn(d, nodes[i]), nodes, i + 1)

\* The least string of a non-empty set
MinStr(S) == CHOOSE s \in S : \A t \in S : ~StrLess(t, s)

\* sorted(set(columns))
RECURSIVE SortedSet(_)
SortedSet(S) ==
    IF S = {} THEN <<>>
    ELSE LET m == MinStr(S) IN <<m>> \o SortedSet(S \ {m})

\* Variant: duplicates dropped, order of first occurrence kept
RECURSIVE SortedUniqueNoSort(_)
SortedUniqueNoSort(columns) ==
    IF columns = <<>> THEN <<>>
    ELSE LET front == SortedUniqueNoSort(SubSeq(columns, 1, Len(columns) - 1))
             x == columns[Len(columns)]
         IN  IF x \in Range(front) THEN front ELSE Append(front, x)

SortedUnique(columns) == SortedSet(Range(columns))

\* 5. for alias_data in info.values(): alias_data["columns"] = sorted(set(...))
NormalizeAll(d) ==
    [i \in 1..Len(d) |-> [d[i] EXCEPT !.columns = SortedUnique(d[i].columns)]]

\* Variant: only the columns written without a qualifier
AllColumnNamesUnqualified(t) ==
    LET bare == SelectSeq(t.columns, LAMBDA c : c.table = "")
    IN  [i \in 1..Len(bare) |-> AliasOrName(bare[i])]

\* [column.alias_or_name for column in parsed.find_all(Column)]
AllColumnNames(t) == [i \in 1..Len(t.columns) |-> AliasOrName(t.columns[i])]

-----------------------------------------------------------------------------
(* The state machine: one call of parse_query, pass by pass *)

Init ==
    /\ tree \in Trees
    /\ info = <<>>
    /\ pc = "begin"
    /\ fallback = FALSE

\* parsed = sqlglot.parse_one(query); info = {}
Begin ==
    /\ pc = "begin"
    /\ info' = <<>>
    /\ fallback' = FALSE
    /\ pc' = "cte"
    /\ UNCHANGED tree

PassCTE ==
    /\ pc = "cte"
    /\ info' = CollectCTEs(info, tree.ctes, 1)
    /\ pc' = "table"
    /\ UNCHANGED <<tree, fallback>>

PassTable ==
    /\ pc = "table"
    /\ info' = CollectTables(info, tree.tables, 1)
    /\ pc' = "subquery"
    /\ UNCHANGED <<tree, fallback>>

PassSubquery ==
    /\ pc = "subquery"
    /\ info' = CollectSubqueries(info, tree.subqueries, 1)
    /\ pc' = "column"
    /\ UNCHANGED <<tree, fallback>>

PassColumn ==
    /\ pc = "column"
    /\ info' = CollectColumns(info, tree.columns, 1)
    /\ pc' = "normalize"
    /\ UNCHANGED <<tree, fallback>>

PassNormalize ==
    /\ pc = "normalize"
    /\ info' = NormalizeAll(info)
    /\ pc' = "fallback"
    /\ UNCHANGED <<tree, fallback>>

\* if len(alias_data['columns'])==0 with alias_data never bound: the loop over
\* info.values() ran zero times, the read raises UnboundLocalError.
FallbackRaise ==
    /\ pc = "fallback"
    /\ Len(info) = 0
    /\ pc' = "raised"
    /\ UNCHANGED <<tree, info, fallback>>

\* Variant: every entry with no columns receives the list
FallbackFillEvery ==
    /\ pc = "fallback"
    /\ Len(info) > 0
    /\ Len(info[Len(info)].columns) = 0
    /\ info' = [i \in 1..Len(info) |->
                   IF Len(info[i].columns) = 0
                   THEN [info[i] EXCEPT !.columns = AllColumnNames(tree)]
                   ELSE info[i]]
    /\ fallback' = TRUE
    /\ pc' = "done"
    /\ UNCHANGED tree

\* alias_data is the value of the last entry iterated
FallbackFill ==
    /\ pc = "fallback"
    /\ Len(info) > 0
    /\ Len(info[Len(info)].columns) = 0
    /\ info' = [info EXCEPT ![Len(info)].columns = AllColumnNames(tree)]
    /\ fallback' = TRUE
    /\ pc' = "done"
    /\ UNCHANGED tree

FallbackSkip ==
    /\ pc = "fallback"
    /\ Len(info) > 0
    /\ Len(info[Len(info)].columns) # 0
    /\ pc' = "done"
    /\ UNCHANGED <<tree, info, fallback>>

Next ==
    \/ Begin
    \/ PassCTE
    \/ PassTable
    \/ PassSubquery
    \/ PassColumn
    \/ PassNormalize
    \/ FallbackRaise
    \/ FallbackFill
    \/ FallbackSkip

Spec == Init /\ [][Next]_vars

-----------------------------------------------------------------------------
(* What the tree declares, stated from the tree alone *)

Returned == pc = "done"

Finished == pc \in {"done", "raised"}

CTENames == {tree.ctes[i].alias : i \in 1..Len(tree.ctes)}

\* alias if present, else table name
EffectiveQualifier(t) == IF t.alias = "" THEN t.name ELSE t.alias

TableQualifiers == {EffectiveQualifier(tree.tables[i]) : i \in 1..Len(tree.tables)}

SubqueryAliases == {tree.subqueries[i].alias : i \in 1..Len(tree.subqueries)} \ {""}

Declared == CTENames \cup TableQualifiers \cup SubqueryAliases

\* Qualifiers used as the prefix of a column reference
ColumnQualifiers == {tree.columns[i].table : i \in 1..Len(tree.columns)} \ {""}

\* Indices of the column references written with qualifier k
RefsOf(k) == {i \in 1..Len(tree.columns) : k # "" /\ tree.columns[i].table = k}

RefNames(k) == {tree.columns[i].name : i \in RefsOf(k)}

Unqualified == {i \in 1..Len(tree.columns) : tree.columns[i].table = ""}

\* The entry at position i was overwritten by the step-5 fallback
Overwritten(i) == fallback /\ i = Len(info)

Ascending(s) == \A i, j \in 1..Len(s) : i < j => StrLess(s[i], s[j])

\* table_name written by the last declaration of k in pass order
LastDeclared(k) ==
    IF k \in SubqueryAliases THEN "Subquery"
    ELSE IF k \in TableQualifiers
         THEN LET last == CHOOSE i \in 1..Len(tree.tables) :
                              /\ EffectiveQualifier(tree.tables[i]) = k
                              /\ \A j \in 1..Len(tree.tables) :
                                    EffectiveQualifier(tree.tables[j]) = k => j <= i
              IN  tree.tables[last].name
         ELSE "CTE"

\* Number of declarations of k over the three registration passes
Declarations(k) ==
    Cardinality({i \in 1..Len(tree.ctes) : tree.ctes[i].alias = k})
    + Cardinality({i \in 1..Len(tree.tables) : EffectiveQualifier(tree.tables[i]) = k})
    + Cardinality({i \in 1..Len(tree.subqueries) : tree.subqueries[i].alias = k})

\* A sequence without its repeated elements, first occurrences kept
RECURSIVE KeepFirst(_)
KeepFirst(s) ==
    IF s = <<>> THEN <<>>
    ELSE LET front == KeepFirst(SubSeq(s, 1, Len(s) - 1))
             x == s[Len(s)]
         IN  IF x \in Range(front) THEN front ELSE Append(front, x)

\* The keys in the order the four passes assign them
RegistrationSequence ==
    [i \in 1..Len(tree.ctes) |-> tree.ctes[i].alias]
    \o [i \in 1..Len(tree.tables) |-> EffectiveQualifier(tree.tables[i])]
    \o SelectSeq([i \in 1..Len(tree.subqueries) |-> tree.subqueries[i].alias],
                 LAMBDA k : k # "")
    \o SelectSeq([i \in 1..Len(tree.columns) |-> tree.columns[i].table],
                 LAMBDA k : k # "")

KeySequence == [i \in 1..Len(info) |-> info[i].key]

-----------------------------------------------------------------------------
(* Properties *)

\* C1: when parse_query has returned, every CTE name, every table reference's
\* effective qualifier and every non-empty subquery alias of the tree is a key
\* of the result, whether or not a qualified column references it.
C1_DeclaredAreKeys == Returned => Declared \subseteq Keys(info)

\* A returned map for a tree with a CTE, a table under an alias and an aliased
\* subquery, none of them referenced by a column.
C1_Witness ==
    /\ Returned
    /\ tree.ctes # <<>>
    /\ \E i \in 1..Len(tree.tables) :
           tree.tables[i].alias # "" /\ tree.tables[i].alias # tree.tables[i].name
    /\ SubqueryAliases # {}
    /\ ColumnQualifiers = {}

\* C2: parse_query succeeds on every tree, and a tree that registers no entry
\* returns the empty map.
C2_AlwaysSucceeds ==
    /\ pc # "raised"
    /\ (Finished /\ Declared = {} /\ ColumnQualifiers = {}) => (Returned /\ info = <<>>)

\* C3: in the returned map every entry not overwritten by the fallback has
\* columns in strictly ascending order (sorted, no duplicates).
C3_SortedUnique ==
    Returned => \A i \in 1..Len(info) : ~Overwritten(i) => Ascending(info[i].columns)

\* A returned entry, not overwritten, whose references arrive out of order and
\* with a duplicate.
C3_Witness ==
    /\ Returned
    /\ \E i \in 1..Len(info) :
         /\ ~Overwritten(i)
         /\ Len(info[i].columns) = 2
         /\ \E x, y, z \in RefsOf(info[i].key) :
              /\ x < y /\ y < z
              /\ StrLess(tree.columns[y].name, tree.columns[x].name)
              /\ tree.columns[z].name = tree.columns[x].name

\* The alias-or-name of every Column node of the tree, in traversal order.
RECURSIVE TraversalNames(_)
TraversalNames(n) ==
    IF n = 0 THEN <<>>
    ELSE LET c == tree.columns[n]
         IN  TraversalNames(n - 1) \o <<IF c.alias = "" THEN c.name ELSE c.alias>>

\* C4: the step after normalization overwrites the columns of the last entry
\* with the alias-or-name of all Column nodes, in traversal order with
\* duplicates, when that entry's columns are empty, and changes nothing otherwise.
C4_FallbackStep ==
    [][(pc = "fallback" /\ pc' = "done") =>
         LET n == Len(info)
         IN  IF info[n].columns = <<>>
             THEN info' = [info EXCEPT ![n].columns = TraversalNames(Len(tree.columns))]
             ELSE info' = info]_vars

\* A returned map whose last entry received the list, the list holding a column
\* qualified by another entry's key.
C4_Witness ==
    /\ Returned
    /\ fallback
    /\ Len(info) >= 2
    /\ RefsOf(info[1].key) # {}
    /\ Len(info[Len(info)].columns) = Len(tree.columns)

\* C5: every entry that is not the last one and has no column reference
\* qualified by its key is returned with empty columns.
C5_OnlyLastFilled ==
    Returned =>
        \A i \in 1..Len(info) :
            (i < Len(info) /\ RefsOf(info[i].key) = {}) => info[i].columns = <<>>

\* The union scenario: two unaliased tables and a bare column; the first entry
\* stays empty and the second holds the fallback list.
C5_Witness ==
    /\ Returned
    /\ Len(info) = 2
    /\ Len(tree.tables) = 2
    /\ Unqualified # {}
    /\ info[1].columns = <<>>
    /\ info[2].columns # <<>>

\* C6: the table_name of a declared key is the one written by its last
\* declaration in pass order, and its columns hold every name referenced under
\* that key.
C6_LastDeclarationWins ==
    Returned =>
        \A i \in 1..Len(info) :
            info[i].key \in Declared =>
                /\ info[i].table_name = LastDeclared(info[i].key)
                /\ RefNames(info[i].key) \subseteq Range(info[i].columns)

\* A returned entry declared twice, with different table_name, and referenced
\* by a qualified column.
C6_Witness ==
    /\ Returned
    /\ \E i \in 1..Len(info) :
         /\ Declarations(info[i].key) >= 2
         /\ info[i].key \in CTENames
         /\ info[i].table_name # "CTE"
         /\ RefsOf(info[i].key) # {}

\* C7: the column pass adds, for every qualifier that is only a column prefix,
\* an entry whose table_name is the qualifier itself, and leaves the key and the
\* table_name of every entry already present unchanged.
C7_UnknownQualifiers ==
    [][pc = "column" =>
         /\ Len(info') >= Len(info)
         /\ \A i \in 1..Len(info) :
                info'[i].key = info[i].key /\ info'[i].table_name = info[i].table_name
         /\ \A k \in ColumnQualifiers \ Declared :
                \E i \in (Len(info) + 1)..Len(info') :
                    info'[i].key = k /\ info'[i].table_name = k
         /\ \A i \in (Len(info) + 1)..Len(info') :
                info'[i].key \in ColumnQualifiers \ Declared]_vars

\* After the column pass: a declared table referenced by a column keeps its
\* table_name, and an undeclared qualifier has its own entry.
C7_Witness ==
    /\ pc = "normalize"
    /\ ColumnQualifiers \ Declared # {}
    /\ \E i \in 1..Len(info) :
         /\ info[i].key \in Declared
         /\ info[i].table_name # info[i].key
         /\ RefsOf(info[i].key) # {}

\* C8 (two calls on the same tree return identical maps) relates two runs of
\* parse_query.  Every pass above is a function of tree and of the map rebuilt
\* from {} by Begin, so two runs on one tree agree by construction; no property
\* of a single behaviour states it.

\* C9: the keys of the returned map are in order of first registration over
\* the CTE, table, subquery and column passes.
C9_FirstRegistrationOrder == Returned => KeySequence = KeepFirst(RegistrationSequence)

\* A returned map whose first key is a CTE name declared again by a table or
\* subquery after another key was registered.
C9_Witness ==
    /\ Returned
    /\ Len(info) >= 2
    /\ info[1].key \in CTENames
    /\ info[1].table_name # "CTE"
    /\ info[2].key \in TableQualifiers
    /\ info[1].key \in SubqueryAliases

\* C10: no entry is created for an unqualified column, and every entry not
\* overwritten by the fallback holds exactly the names referenced under its key.
C10_QualifiedOnly ==
    Returned =>
        /\ Keys(info) = Declared \cup ColumnQualifiers
        /\ \A i \in 1..Len(info) :
               ~Overwritten(i) => Range(info[i].columns) = RefNames(info[i].key)

\* A returned map from a tree with an unqualified column and columns under two
\* different qualifiers.
C10_Witness ==
    /\ Returned
    /\ Unqualified # {}
    /\ Len(info) = 2
    /\ ~fallback
    /\ info[1].columns # <<>>
    /\ info[1].columns # info[2].columns

====
